---- MODULE Spec2Model ----
(***************************************************************************)
(* A model of the two exercises of the repository:                         *)
(*   - exercise2_rag_playground/src/main.py: the interactive question loop *)
(*     (run_interactive_mode), specification SpecLoop;                     *)
(*   - exercise1_tools_and_agents/main.py: the extraction-and-store        *)
(*     pipeline (extract_and_store_companies, insert_companies_to_db,      *)
(*     get_stored_companies), specification Spec;                          *)
(*   - exercise2_rag_playground/src/load_data_to_chroma.py: the vector     *)
(*     indexer (add_chunks_to_vector_db), specification SpecIndex.         *)
(* Text is a sequence of one-character strings, so that trimming,          *)
(* lower-casing and splitting are computed, not assumed.                   *)
(***************************************************************************)
EXTENDS Integers, Sequences, FiniteSets, TLC

VARIABLES
    \* ---- run_interactive_mode (exercise 2, main.py) ----
    loop,           \* position of the loop: AwaitingInput, Answering, Exited, Raised
    question,       \* the local `question` (the stripped line last read)
    reads,          \* history: the lines input() has returned, in order
    eof,            \* history: input() has hit end-of-input
    invoked,        \* history: the calls rag_chain.invoke(question), in order
    outcomes,       \* history: how each call of rag_chain.invoke ended
    \* ---- extract_and_store_companies and the store (exercise 1, main.py) ----
    pc,             \* position of the pipeline and of the store operation it runs
    paragraphs,     \* the local `paragraphs`
    idx,            \* number of paragraphs the loop of line 172 has processed
    all_companies,  \* the local `all_companies`
    success,        \* what insert_companies_to_db returned
    stored,         \* what get_stored_companies returned
    ret,            \* what extract_and_store_companies returned
    next_row,       \* insert_companies_to_db: index of the next record of the batch
    fetched,        \* get_stored_companies: the local `rows`
    table_exists,   \* database: relation company_details exists
    rows,           \* database: the rows of company_details, in insertion order
    next_id,        \* database: next value of the SERIAL id
    open_conns,     \* database: connections opened and not closed
    sent,           \* history: the paragraphs passed to extraction_chain.ainvoke
    results,        \* history: how each call of extraction_chain.ainvoke ended
    insert_calls,   \* history: the arguments of the calls of insert_companies_to_db
    get_calls,      \* history: number of calls of get_stored_companies
    attempted,      \* history: the records the running insert has got to
    db_fault,       \* history: a connection or statement failed in the database
    essay_blank,    \* history: the essay given held nothing but whitespace
    rows_before,    \* history: the rows of company_details when insert was called
    \* ---- add_chunks_to_vector_db (exercise 2, load_data_to_chroma.py) ----
    index_pc,       \* position in add_chunks_to_vector_db: start, created, returned, raised
    chunks,         \* the argument `chunks` (the text of each chunk)
    collection,     \* the entries of the persisted collection 'rag_exercise'
    collection_before, \* history: the collection when add_chunks_to_vector_db was called
    \* ---- load_documents (exercise 2, load_data_to_chroma.py) ----
    load_pc,        \* position in load_documents
    documents,      \* the local `documents`
    doc_no,         \* manual fallback: index in doc_ids of the next document
    confluence_got, \* history: what confluence_loader.load() delivered
    drive_got,      \* history: what Google Drive delivered (loader or manual fallback)
    load_faults,    \* history: the steps of load_documents that raised
    \* ---- direct calls of the store operations (exercise 1, main.py) ----
    insert_results  \* history: what each direct call of insert_companies_to_db returned

loopVars == <<loop, question, reads, eof, invoked, outcomes>>

pipeVars == <<pc, paragraphs, idx, all_companies, success, stored, ret>>

storeVars == <<next_row, fetched, table_exists, rows, next_id, open_conns>>

histVars == <<sent, results, insert_calls, get_calls, attempted, db_fault, essay_blank,
             rows_before>>

extractVars == <<pipeVars, storeVars, histVars>>

indexVars == <<index_pc, chunks, collection, collection_before>>

loadVars == <<load_pc, documents, doc_no, confluence_got, drive_got, load_faults>>

clientVars == <<insert_results>>

vars == <<loopVars, extractVars, indexVars, loadVars, clientVars>>

(***************************************************************************)
(* Bounds of the model.                                                    *)
(***************************************************************************)
MaxInputs == 3      \* lines read from standard input in one run of the loop
MaxEssayLen == 7    \* characters of an essay
MaxCompanies == 3   \* records one run of the pipeline extracts
MaxChunks == 3      \* chunks given to one call of add_chunks_to_vector_db
MaxCalls == 3       \* direct calls of the store operations in one run

(***************************************************************************)
(* Text helpers: str.strip() and str.lower().                              *)
(***************************************************************************)
Whitespace == {" ", "\t", "\n"}

RECURSIVE LStrip(_)
LStrip(s) ==
    IF s = <<>> THEN s
    ELSE IF Head(s) \in Whitespace THEN LStrip(Tail(s))
    ELSE s

RECURSIVE RStrip(_)
RStrip(s) ==
    IF s = <<>> THEN s
    ELSE IF s[Len(s)] \in Whitespace THEN RStrip(SubSeq(s, 1, Len(s) - 1))
    ELSE s

Strip(s) == RStrip(LStrip(s))

LowerChar(c) ==
    CASE c = "Q" -> "q"
      [] c = "U" -> "u"
      [] c = "I" -> "i"
      [] c = "T" -> "t"
      [] c = "A" -> "a"
      [] OTHER -> c

Lower(s) == [i \in 1..Len(s) |-> LowerChar(s[i])]


(***************************************************************************)
(* Exercise 1: text and dates.                                             *)
(***************************************************************************)
EssayChars == {"a", " ", "\n"}

RECURSIVE SeqsUpTo(_, _)
SeqsUpTo(S, n) ==
    IF n = 0 THEN {<<>>}
    ELSE LET shorter == SeqsUpTo(S, n - 1) IN
         shorter \cup { Append(s, c) : s \in { t \in shorter : Len(t) = n - 1 }, c \in S }

Essays == SeqsUpTo(EssayChars, MaxEssayLen)

\* str.split('\n\n'): the segments between the separators, found left to right.
RECURSIVE SplitBlankLine(_)
SplitBlankLine(s) ==
    LET seps == { i \in 1..(Len(s) - 1) : s[i] = "\n" /\ s[i + 1] = "\n" } IN
    IF seps = {} THEN <<s>>
    ELSE LET i == CHOOSE j \in seps : \A j2 \in seps : j <= j2 IN
         <<SubSeq(s, 1, i - 1)>> \o SplitBlankLine(SubSeq(s, i + 2, Len(s)))

\* A variant of the split that keeps the segments that strip to nothing.
ParagraphsKeepingEmpty(essay) ==
    LET segs == SplitBlankLine(essay) IN
    [i \in 1..Len(segs) |-> Strip(segs[i])]

\* line 167: [p.strip() for p in essay_text.split('\n\n') if p.strip()]
Paragraphs(essay) ==
    LET segs == SplitBlankLine(essay) IN
    SelectSeq([i \in 1..Len(segs) |-> Strip(segs[i])], LAMBDA p : p # <<>>)

Digits == {"0", "1", "2", "3", "4", "5", "6", "7", "8", "9"}

DigitValue(c) ==
    CASE c = "0" -> 0 [] c = "1" -> 1 [] c = "2" -> 2 [] c = "3" -> 3 [] c = "4" -> 4
      [] c = "5" -> 5 [] c = "6" -> 6 [] c = "7" -> 7 [] c = "8" -> 8 [] c = "9" -> 9

RECURSIVE ParseInt(_)
ParseInt(s) ==
    IF s = <<>> THEN 0
    ELSE 10 * ParseInt(SubSeq(s, 1, Len(s) - 1)) + DigitValue(s[Len(s)])

RECURSIVE SplitDash(_)
SplitDash(s) ==
    LET seps == { i \in 1..Len(s) : s[i] = "-" } IN
    IF seps = {} THEN <<s>>
    ELSE LET i == CHOOSE j \in seps : \A j2 \in seps : j <= j2 IN
         <<SubSeq(s, 1, i - 1)>> \o SplitDash(SubSeq(s, i + 1, Len(s)))

IsLeapYear(y) == (y % 4 = 0 /\ y % 100 # 0) \/ y % 400 = 0

DaysInMonth(y, m) ==
    IF m = 2 THEN (IF IsLeapYear(y) THEN 29 ELSE 28)
    ELSE IF m \in {4, 6, 9, 11} THEN 30 ELSE 31

AllDigits(s) == \A i \in 1..Len(s) : s[i] \in Digits

\* line 66: datetime.strptime(s, "%Y-%m-%d") does not raise ValueError:
\* four digits, '-', a month 1..12, '-', a day of that month.
StrptimeOk(s) ==
    LET f == SplitDash(s) IN
    /\ Len(f) = 3
    /\ \A i \in 1..3 : AllDigits(f[i])
    /\ Len(f[1]) = 4
    /\ Len(f[2]) \in {1, 2} /\ ParseInt(f[2]) \in 1..12
    /\ Len(f[3]) \in {1, 2} /\ ParseInt(f[3]) \in 1..DaysInMonth(ParseInt(f[1]), ParseInt(f[2]))

\* line 66: the date object, <<year, month, day>>.
Strptime(s) ==
    LET f == SplitDash(s) IN <<ParseInt(f[1]), ParseInt(f[2]), ParseInt(f[3])>>

DateBefore(d, e) ==
    \/ d[1] < e[1]
    \/ d[1] = e[1] /\ d[2] < e[2]
    \/ d[1] = e[1] /\ d[2] = e[2] /\ d[3] < e[3]

(***************************************************************************)
(* Exercise 1: what the language model and the database may hold.          *)
(***************************************************************************)
\* CompanyInfo (lines 36-40): founding_date is a str, of any content.
Sony ==
    [company_name |-> "Sony Corporation",
     founding_date |-> <<"1", "9", "4", "6", "-", "0", "5", "-", "0", "7">>,
     founders |-> <<"Masaru Ibuka", "Akio Morita">>]

CocaCola ==
    [company_name |-> "The Coca-Cola Company",
     founding_date |-> <<"1", "8", "8", "6", "-", "5", "-", "8">>,
     founders |-> <<"John Stith Pemberton">>]

Stripe ==
    [company_name |-> "Stripe, Inc.",
     founding_date |-> <<"2", "0", "1", "0">>,
     founders |-> <<"Patrick Collison", "John Collison">>]

Companies == {Sony, CocaCola, Stripe}

\* ExtractedCompanies (lines 42-44) as one call of the chain may return it.
Batches ==
    {<<>>} \cup { <<c>> : c \in Companies } \cup { <<CocaCola, Sony>>, <<Sony, Stripe>> }

\* A row that an earlier run left in company_details.
PriorRow ==
    [id |-> 1, company_name |-> "Intel Corporation", founded_in |-> <<1968, 7, 18>>,
     founded_by |-> <<"Robert Noyce", "Gordon Moore">>]

ExtractIdle ==
    /\ pc = "idle"
    /\ paragraphs = <<>>
    /\ idx = 0
    /\ all_companies = <<>>
    /\ success = FALSE
    /\ stored = <<>>
    /\ ret = <<>>
    /\ next_row = 0
    /\ fetched = <<>>
    /\ table_exists = FALSE
    /\ rows = <<>>
    /\ next_id = 1
    /\ open_conns = 0
    /\ sent = <<>>
    /\ results = <<>>
    /\ insert_calls = <<>>
    /\ get_calls = 0
    /\ attempted = <<>>
    /\ db_fault = FALSE
    /\ essay_blank = FALSE
    /\ rows_before = <<>>

(***************************************************************************)
(* Exercise 2: what the vector indexer is given.                           *)
(***************************************************************************)
ChunkTexts == {"code of conduct", "anti-harassment policy", "nomination guideline"}

\* OpenAIEmbeddings: one vector per text, the same for the same text.
Embedding(text) == <<"vector of", text>>

\* An entry that an earlier ingestion left in the collection.
PriorEntry ==
    [id |-> 1, document |-> "code of conduct", embedding |-> Embedding("code of conduct")]

IndexIdle ==
    /\ index_pc = "idle"
    /\ chunks = <<>>
    /\ collection = <<>>
    /\ collection_before = <<>>

(***************************************************************************)
(* Exercise 2: what the document providers may deliver.                    *)
(***************************************************************************)
\* The Confluence page of CODE_OF_CONDUCT_URL, as ConfluenceLoader returns it.
ConfluenceLoads ==
    { << [title |-> "Code of Conduct", source |-> "confluence", part |-> 1] >>,
      << [title |-> "Code of Conduct", source |-> "confluence", part |-> 1],
         [title |-> "Code of Conduct", source |-> "confluence", part |-> 2] >> }

\* The two Drive files, as GoogleDriveLoader returns them.
DriveLoads ==
    { << [title |-> "Anti-Harassment Policy", source |-> "google_drive", part |-> 1],
         [title |-> "Nomination Guidelines", source |-> "google_drive", part |-> 1] >> }

\* lines 76-79: doc_ids holds two ids.
NumDocIds == 2

\* lines 98, 117, 144: the title of the file of each id.
DriveTitle(n) == IF n = 1 THEN "Anti-Harassment Policy" ELSE "Nomination Guidelines"

\* The mimeType a Drive file may report, and the branch of lines 101 and 129
\* it takes: 'pdf' in mime_type, else 'wordprocessingml' in mime_type or
\* 'document' in mime_type, else neither.
MimeTypes ==
    { "application/pdf",
      "application/vnd.openxmlformats-officedocument.wordprocessingml.document",
      "application/vnd.google-apps.document",
      "text/plain" }

MimeBranch(mime) ==
    CASE mime = "application/pdf" -> "pdf"
      [] mime = "application/vnd.openxmlformats-officedocument.wordprocessingml.document" -> "docx"
      [] mime = "application/vnd.google-apps.document" -> "docx"
      [] OTHER -> "none"

\* lines 112-121 and 139-148: the documents of one file (a PDF gives one per
\* page), with the metadata the fallback sets on them.
ManualDocs(n, pages) ==
    [i \in 1..pages |-> [title |-> DriveTitle(n), source |-> "google_drive_manual", part |-> i]]

LoadIdle ==
    /\ load_pc = "idle"
    /\ documents = <<>>
    /\ doc_no = 0
    /\ confluence_got = <<>>
    /\ drive_got = <<>>
    /\ load_faults = {}

ClientIdle == insert_results = <<>>

(***************************************************************************)
(* run_interactive_mode                                                    *)
(***************************************************************************)
\* The lines standard input may deliver (input() drops the newline).
Lines ==
    { <<>>, <<" ">>, <<"\t", " ">>,
      <<"q">>, <<"Q">>, <<" ", "q", " ">>,
      <<"q", "u", "i", "t">>, <<"Q", "U", "I", "T">>, <<"Q", "u", "i", "t", " ">>,
      <<"a">>, <<" ", "A">>, <<"q", "u">>, <<"q", " ", "a">> }

QuitSentinels == { <<"q", "u", "i", "t">>, <<"q">> }

\* A variant of the sentinel test that compares without lower-casing.
IsQuitSentinelCaseSensitive(q) == q \in QuitSentinels

\* line 89: question.lower() in ['quit', 'q']
IsQuitSentinel(q) == Lower(q) \in QuitSentinels

\* A variant of the blank test that never holds.
IsEmptyQuestionNever(q) == FALSE

\* line 93: not question
IsEmptyQuestion(q) == q = <<>>

LoopIdle ==
    /\ loop = "AwaitingInput"
    /\ question = <<>>
    /\ reads = <<>>
    /\ eof = FALSE
    /\ invoked = <<>>
    /\ outcomes = <<>>

InitLoop ==
    /\ LoopIdle
    /\ LoadIdle
    /\ ClientIdle
    /\ ExtractIdle
    /\ IndexIdle

\* lines 87-97: one line is read, stripped and dispatched.
ReadLine ==
    /\ loop = "AwaitingInput"
    /\ Len(reads) < MaxInputs
    /\ \E line \in Lines :
         LET q == Strip(line) IN
         /\ reads' = Append(reads, line)
         /\ question' = q
         /\ IF IsQuitSentinel(q)
              THEN /\ loop' = "Exited"
                   /\ UNCHANGED invoked
              ELSE IF IsEmptyQuestion(q)
                THEN /\ loop' = "AwaitingInput"
                     /\ UNCHANGED invoked
                ELSE /\ loop' = "Answering"
                     /\ invoked' = Append(invoked, [input |-> Len(reads) + 1, question |-> q])
    /\ UNCHANGED <<eof, outcomes, extractVars, indexVars, loadVars, clientVars>>

\* line 87: input() raises EOFError at end-of-input; nothing in
\* run_interactive_mode (nor in main) catches it.
ReadEndOfInput ==
    /\ loop = "AwaitingInput"
    /\ eof' = TRUE
    /\ loop' = "Raised"
    /\ UNCHANGED <<question, reads, invoked, outcomes, extractVars, indexVars, loadVars, clientVars>>

\* lines 97-98: rag_chain.invoke returns an answer, which is printed.
InvokeReturns ==
    /\ loop = "Answering"
    /\ outcomes' = Append(outcomes, "answer")
    /\ loop' = "AwaitingInput"
    /\ UNCHANGED <<question, reads, eof, invoked, extractVars, indexVars, loadVars, clientVars>>

\* A variant of the failure path that lets the error leave the loop.
InvokeRaisesUncaught ==
    /\ loop = "Answering"
    /\ outcomes' = Append(outcomes, "error")
    /\ loop' = "Raised"
    /\ UNCHANGED <<question, reads, eof, invoked, extractVars, indexVars, loadVars, clientVars>>

\* lines 99-100: rag_chain.invoke raises; the error is printed and the loop goes on.
InvokeRaises ==
    /\ loop = "Answering"
    /\ outcomes' = Append(outcomes, "error")
    /\ loop' = "AwaitingInput"
    /\ UNCHANGED <<question, reads, eof, invoked, extractVars, indexVars, loadVars, clientVars>>

NextLoop ==
    \/ ReadLine
    \/ ReadEndOfInput
    \/ InvokeReturns
    \/ InvokeRaises

SpecLoop == InitLoop /\ [][NextLoop]_vars

(***************************************************************************)
(* Exercise 1: extract_and_store_companies.                                *)
(***************************************************************************)
Init ==
    /\ LoopIdle
    /\ LoadIdle
    /\ ClientIdle
    /\ IndexIdle
    /\ pc = "start"
    /\ paragraphs = <<>>
    /\ idx = 0
    /\ all_companies = <<>>
    /\ success = FALSE
    /\ stored = <<>>
    /\ ret = <<>>
    /\ next_row = 0
    /\ fetched = <<>>
    /\ \/ table_exists = FALSE /\ rows = <<>> /\ next_id = 1
       \/ table_exists = TRUE /\ rows = <<PriorRow>> /\ next_id = 2
    /\ open_conns = 0
    /\ sent = <<>>
    /\ results = <<>>
    /\ insert_calls = <<>>
    /\ get_calls = 0
    /\ attempted = <<>>
    /\ db_fault = FALSE
    /\ essay_blank = FALSE
    /\ rows_before = <<>>

\* What the claims call an essay of only whitespace and blank lines.
OnlyWhitespace(essay) == \A i \in 1..Len(essay) : essay[i] \in Whitespace

\* lines 152-169: extract_and_store_companies is called with an essay; the
\* model and the chain are built and the essay is split.
SplitEssay ==
    /\ pc = "start"
    /\ \E essay_text \in Essays :
         /\ paragraphs' = Paragraphs(essay_text)
         /\ essay_blank' = OnlyWhitespace(essay_text)
    /\ idx' = 0
    /\ all_companies' = <<>>
    /\ pc' = "extract"
    /\ UNCHANGED <<success, stored, ret, storeVars, sent, results, insert_calls,
                   get_calls, attempted, db_fault, rows_before, loopVars, indexVars, loadVars, clientVars>>

\* lines 157-164 raise (the model or the chain cannot be built): lines 195-197.
SetupFails ==
    /\ pc = "start"
    /\ ret' = <<>>
    /\ pc' = "done"
    /\ UNCHANGED <<paragraphs, idx, all_companies, success, stored,
                   storeVars, histVars, loopVars, indexVars, loadVars, clientVars>>

\* lines 172-178: the chain returns the records of the next paragraph.
ExtractParagraph ==
    /\ pc = "extract"
    /\ idx < Len(paragraphs)
    /\ \E batch \in Batches :
         /\ Len(all_companies) + Len(batch) <= MaxCompanies
         /\ all_companies' = all_companies \o batch
         /\ results' = Append(results, [ok |-> TRUE, companies |-> batch])
    /\ sent' = Append(sent, paragraphs[idx + 1])
    /\ idx' = idx + 1
    /\ UNCHANGED <<pc, paragraphs, success, stored, ret, storeVars,
                   insert_calls, get_calls, attempted, db_fault, essay_blank, rows_before, loopVars, indexVars, loadVars, clientVars>>

\* A variant of the failure path that gives up the whole run.
ExtractParagraphFailsAborting ==
    /\ pc = "extract"
    /\ idx < Len(paragraphs)
    /\ results' = Append(results, [ok |-> FALSE, companies |-> <<>>])
    /\ sent' = Append(sent, paragraphs[idx + 1])
    /\ idx' = idx + 1
    /\ ret' = <<>>
    /\ pc' = "done"
    /\ UNCHANGED <<paragraphs, all_companies, success, stored, storeVars,
                   insert_calls, get_calls, attempted, db_fault, essay_blank, rows_before, loopVars, indexVars, loadVars, clientVars>>

\* lines 174, 180-182: the model call or the parse of its output raises; the
\* error is printed and the loop goes on with the next paragraph.
ExtractParagraphFails ==
    /\ pc = "extract"
    /\ idx < Len(paragraphs)
    /\ results' = Append(results, [ok |-> FALSE, companies |-> <<>>])
    /\ sent' = Append(sent, paragraphs[idx + 1])
    /\ idx' = idx + 1
    /\ UNCHANGED <<pc, paragraphs, all_companies, success, stored, ret,
                   storeVars, insert_calls, get_calls, attempted, db_fault, essay_blank, rows_before, loopVars, indexVars, loadVars, clientVars>>

\* lines 184-187 and 193: after the last paragraph, insert_companies_to_db is
\* called if anything was extracted; otherwise [] is returned.
FinishExtraction ==
    /\ pc = "extract"
    /\ idx = Len(paragraphs)
    /\ IF all_companies # <<>>
         THEN /\ insert_calls' = Append(insert_calls, all_companies)
              /\ attempted' = <<>>
              /\ rows_before' = rows
              /\ next_row' = 1
              /\ pc' = "ins_connect"
              /\ UNCHANGED ret
         ELSE /\ ret' = <<>>
              /\ pc' = "done"
              /\ UNCHANGED <<insert_calls, attempted, rows_before, next_row>>
    /\ UNCHANGED <<paragraphs, idx, all_companies, success, stored, fetched,
                   table_exists, rows, next_id, open_conns, sent, results, get_calls,
                   db_fault, essay_blank, loopVars, indexVars, loadVars, clientVars>>

\* lines 187-193: insert_companies_to_db has returned.
AfterInsert ==
    /\ pc = "ins_returned"
    /\ IF success
         THEN /\ get_calls' = get_calls + 1
              /\ pc' = "get_connect"
              /\ UNCHANGED ret
         ELSE /\ ret' = <<>>
              /\ pc' = "done"
              /\ UNCHANGED get_calls
    /\ UNCHANGED <<paragraphs, idx, all_companies, success, stored, storeVars,
                   sent, results, insert_calls, attempted, db_fault, essay_blank, rows_before, loopVars, indexVars, loadVars, clientVars>>

\* lines 190-191: get_stored_companies has returned.
AfterGet ==
    /\ pc = "get_returned"
    /\ ret' = stored
    /\ pc' = "done"
    /\ UNCHANGED <<paragraphs, idx, all_companies, success, stored, storeVars,
                   histVars, loopVars, indexVars, loadVars, clientVars>>

(***************************************************************************)
(* Exercise 1: insert_companies_to_db.                                     *)
(***************************************************************************)
\* lines 77-79: an exception anywhere in the body; False is returned.
InsertReturnsFalse ==
    /\ success' = FALSE
    /\ pc' = "ins_returned"

\* line 53: the connection is opened.
InsertConnect ==
    /\ pc = "ins_connect"
    /\ open_conns' = open_conns + 1
    /\ pc' = "ins_schema"
    /\ UNCHANGED <<paragraphs, idx, all_companies, success, stored, ret,
                   next_row, fetched, table_exists, rows, next_id, histVars, loopVars, indexVars, loadVars, clientVars>>

\* line 53 raises: the database cannot be reached.
InsertConnectFails ==
    /\ pc = "ins_connect"
    /\ InsertReturnsFalse
    /\ db_fault' = TRUE
    /\ UNCHANGED <<paragraphs, idx, all_companies, stored, ret, storeVars,
                   sent, results, insert_calls, get_calls, attempted, essay_blank, rows_before, loopVars, indexVars, loadVars, clientVars>>

\* lines 55-62: CREATE TABLE IF NOT EXISTS.
InsertEnsureSchema ==
    /\ pc = "ins_schema"
    /\ table_exists' = TRUE
    /\ pc' = "ins_row"
    /\ UNCHANGED <<paragraphs, idx, all_companies, success, stored, ret,
                   next_row, fetched, rows, next_id, open_conns, histVars, loopVars, indexVars, loadVars, clientVars>>

\* lines 55-62 raise.
InsertEnsureSchemaFails ==
    /\ pc = "ins_schema"
    /\ InsertReturnsFalse
    /\ db_fault' = TRUE
    /\ UNCHANGED <<paragraphs, idx, all_companies, stored, ret, storeVars,
                   sent, results, insert_calls, get_calls, attempted, essay_blank, rows_before, loopVars, indexVars, loadVars, clientVars>>

\* The batch that the running insert_companies_to_db was given.
Batch == insert_calls[Len(insert_calls)]

\* A variant of the row step that skips a record whose date does not parse.
InsertRowSkippingBadDate ==
    /\ pc = "ins_row"
    /\ next_row <= Len(Batch)
    /\ LET company == Batch[next_row] IN
       /\ attempted' = Append(attempted, company)
       /\ IF StrptimeOk(company.founding_date)
            THEN /\ rows' = Append(rows, [id |-> next_id,
                                          company_name |-> company.company_name,
                                          founded_in |-> Strptime(company.founding_date),
                                          founded_by |-> company.founders])
                 /\ next_id' = next_id + 1
            ELSE UNCHANGED <<rows, next_id>>
       /\ next_row' = next_row + 1
       /\ UNCHANGED <<pc, success>>
    /\ UNCHANGED <<paragraphs, idx, all_companies, stored, ret, fetched,
                   table_exists, open_conns, sent, results, insert_calls, get_calls,
                   db_fault, essay_blank, rows_before, loopVars, indexVars, loadVars, clientVars>>

\* A variant of the row step inside a transaction: a date that does not parse
\* takes the rows of the running call back out of the table.
InsertRowRollingBack ==
    /\ pc = "ins_row"
    /\ next_row <= Len(Batch)
    /\ LET company == Batch[next_row] IN
       /\ attempted' = Append(attempted, company)
       /\ IF StrptimeOk(company.founding_date)
            THEN /\ rows' = Append(rows, [id |-> next_id,
                                          company_name |-> company.company_name,
                                          founded_in |-> Strptime(company.founding_date),
                                          founded_by |-> company.founders])
                 /\ next_id' = next_id + 1
                 /\ next_row' = next_row + 1
                 /\ UNCHANGED <<pc, success>>
            ELSE /\ InsertReturnsFalse
                 /\ rows' = rows_before
                 /\ UNCHANGED <<next_id, next_row>>
    /\ UNCHANGED <<paragraphs, idx, all_companies, stored, ret, fetched,
                   table_exists, open_conns, sent, results, insert_calls, get_calls,
                   db_fault, essay_blank, rows_before, loopVars, indexVars, loadVars, clientVars>>

\* lines 64-71: the next record's date is converted and its row inserted (each
\* statement commits on its own: no transaction is opened); a date that does
\* not parse raises ValueError.
InsertRow ==
    /\ pc = "ins_row"
    /\ next_row <= Len(Batch)
    /\ LET company == Batch[next_row] IN
       /\ attempted' = Append(attempted, company)
       /\ IF StrptimeOk(company.founding_date)
            THEN /\ rows' = Append(rows, [id |-> next_id,
                                          company_name |-> company.company_name,
                                          founded_in |-> Strptime(company.founding_date),
                                          founded_by |-> company.founders])
                 /\ next_id' = next_id + 1
                 /\ next_row' = next_row + 1
                 /\ UNCHANGED <<pc, success>>
            ELSE /\ InsertReturnsFalse
                 /\ UNCHANGED <<rows, next_id, next_row>>
    /\ UNCHANGED <<paragraphs, idx, all_companies, stored, ret, fetched,
                   table_exists, open_conns, sent, results, insert_calls, get_calls,
                   db_fault, essay_blank, rows_before, loopVars, indexVars, loadVars, clientVars>>

\* lines 68-71 raise: the INSERT statement fails.
InsertRowFails ==
    /\ pc = "ins_row"
    /\ next_row <= Len(Batch)
    /\ StrptimeOk(Batch[next_row].founding_date)
    /\ attempted' = Append(attempted, Batch[next_row])
    /\ InsertReturnsFalse
    /\ db_fault' = TRUE
    /\ UNCHANGED <<paragraphs, idx, all_companies, stored, ret, storeVars,
                   sent, results, insert_calls, get_calls, essay_blank, rows_before, loopVars, indexVars, loadVars, clientVars>>

\* lines 73-75: after the last record the connection is closed; True is returned.
InsertClose ==
    /\ pc = "ins_row"
    /\ next_row > Len(Batch)
    /\ open_conns' = open_conns - 1
    /\ success' = TRUE
    /\ pc' = "ins_returned"
    /\ UNCHANGED <<paragraphs, idx, all_companies, stored, ret, next_row,
                   fetched, table_exists, rows, next_id, histVars, loopVars, indexVars, loadVars, clientVars>>

(***************************************************************************)
(* Exercise 1: get_stored_companies.                                       *)
(***************************************************************************)
\* A variant of the query without its ORDER BY: the rows as inserted.
InInsertionOrder(table) == {table}

\* ORDER BY founded_in: the rows in an order ascending by date; the order of
\* rows of one date is the database's choice.
OrderedByFoundedIn(table) ==
    LET n == Len(table)
        perms == { f \in [1..n -> 1..n] : \A i, j \in 1..n : i # j => f[i] # f[j] }
    IN  { [i \in 1..n |-> table[f[i]]] :
            f \in { g \in perms :
                      \A i \in 1..(n - 1) :
                          ~DateBefore(table[g[i + 1]].founded_in, table[g[i]].founded_in) } }

\* lines 108-110: an exception anywhere in the body; [] is returned.
GetReturnsEmpty ==
    /\ stored' = <<>>
    /\ pc' = "get_returned"

\* line 86: the connection is opened.
GetConnect ==
    /\ pc = "get_connect"
    /\ open_conns' = open_conns + 1
    /\ pc' = "get_fetch"
    /\ UNCHANGED <<paragraphs, idx, all_companies, success, stored, ret,
                   next_row, fetched, table_exists, rows, next_id, histVars, loopVars, indexVars, loadVars, clientVars>>

\* line 86 raises: the database cannot be reached.
GetConnectFails ==
    /\ pc = "get_connect"
    /\ GetReturnsEmpty
    /\ db_fault' = TRUE
    /\ UNCHANGED <<paragraphs, idx, all_companies, success, ret, storeVars,
                   sent, results, insert_calls, get_calls, attempted, essay_blank, rows_before, loopVars, indexVars, loadVars, clientVars>>

\* lines 88-92: the SELECT returns the rows ordered by founded_in.
GetFetch ==
    /\ pc = "get_fetch"
    /\ table_exists
    /\ fetched' \in OrderedByFoundedIn(rows)
    /\ pc' = "get_close"
    /\ UNCHANGED <<paragraphs, idx, all_companies, success, stored, ret,
                   next_row, table_exists, rows, next_id, open_conns, histVars, loopVars, indexVars, loadVars, clientVars>>

\* A variant of the handler of line 108 that lets the error leave the function.
GetFetchFailsRaising ==
    /\ pc = "get_fetch"
    /\ pc' = "get_raised"
    /\ db_fault' = TRUE
    /\ UNCHANGED <<paragraphs, idx, all_companies, success, stored, ret, storeVars,
                   sent, results, insert_calls, get_calls, attempted, essay_blank, rows_before, loopVars, indexVars, loadVars, clientVars>>

\* lines 88-92 raise: the relation is missing or the statement fails.
GetFetchFails ==
    /\ pc = "get_fetch"
    /\ GetReturnsEmpty
    /\ db_fault' = TRUE
    /\ UNCHANGED <<paragraphs, idx, all_companies, success, ret, storeVars,
                   sent, results, insert_calls, get_calls, attempted, essay_blank, rows_before, loopVars, indexVars, loadVars, clientVars>>

\* lines 94-106: the connection is closed and the rows are returned as dicts.
GetClose ==
    /\ pc = "get_close"
    /\ open_conns' = open_conns - 1
    /\ stored' = fetched
    /\ pc' = "get_returned"
    /\ UNCHANGED <<paragraphs, idx, all_companies, success, ret, next_row,
                   fetched, table_exists, rows, next_id, histVars, loopVars, indexVars, loadVars, clientVars>>

Next ==
    \/ SplitEssay
    \/ SetupFails
    \/ ExtractParagraph
    \/ ExtractParagraphFails
    \/ FinishExtraction
    \/ AfterInsert
    \/ AfterGet
    \/ InsertConnect
    \/ InsertConnectFails
    \/ InsertEnsureSchema
    \/ InsertEnsureSchemaFails
    \/ InsertRow
    \/ InsertRowFails
    \/ InsertClose
    \/ GetConnect
    \/ GetConnectFails
    \/ GetFetch
    \/ GetFetchFails
    \/ GetClose

Spec == Init /\ [][Next]_vars

(***************************************************************************)
(* Exercise 1: the store operations called directly, in any order.         *)
(***************************************************************************)
\* The batches a caller may hand to insert_companies_to_db.
StoreBatches == Batches \cup {<<Sony, CocaCola>>, <<Sony, Sony>>}

InitStore ==
    /\ LoopIdle
    /\ IndexIdle
    /\ LoadIdle
    /\ ClientIdle
    /\ pc = "client"
    /\ paragraphs = <<>>
    /\ idx = 0
    /\ all_companies = <<>>
    /\ success = FALSE
    /\ stored = <<>>
    /\ ret = <<>>
    /\ next_row = 0
    /\ fetched = <<>>
    /\ table_exists \in BOOLEAN
    /\ rows = <<>>
    /\ next_id = 1
    /\ open_conns = 0
    /\ sent = <<>>
    /\ results = <<>>
    /\ insert_calls = <<>>
    /\ get_calls = 0
    /\ attempted = <<>>
    /\ db_fault = FALSE
    /\ essay_blank = FALSE
    /\ rows_before = <<>>

\* line 47: insert_companies_to_db(companies) is called; db_fault is cleared,
\* to tell the failures of this call.
CallInsert ==
    /\ pc = "client"
    /\ Len(insert_calls) + get_calls < MaxCalls
    /\ \E companies \in StoreBatches :
         insert_calls' = Append(insert_calls, companies)
    /\ attempted' = <<>>
    /\ rows_before' = rows
    /\ next_row' = 1
    /\ db_fault' = FALSE
    /\ pc' = "ins_connect"
    /\ UNCHANGED <<paragraphs, idx, all_companies, success, stored, ret, fetched,
                   table_exists, rows, next_id, open_conns, sent, results, get_calls,
                   essay_blank, loopVars, indexVars, loadVars, clientVars>>

\* lines 75 and 79: insert_companies_to_db hands its result to the caller.
InsertReturnsToCaller ==
    /\ pc = "ins_returned"
    /\ insert_results' = Append(insert_results, success)
    /\ pc' = "client"
    /\ UNCHANGED <<paragraphs, idx, all_companies, success, stored, ret, storeVars,
                   histVars, loopVars, indexVars, loadVars>>

\* line 81: get_stored_companies() is called; db_fault is cleared, to tell the
\* failures of this call.
CallGet ==
    /\ pc = "client"
    /\ Len(insert_calls) + get_calls < MaxCalls
    /\ get_calls' = get_calls + 1
    /\ db_fault' = FALSE
    /\ pc' = "get_connect"
    /\ UNCHANGED <<paragraphs, idx, all_companies, success, stored, ret, storeVars,
                   sent, results, insert_calls, attempted, essay_blank, rows_before,
                   loopVars, indexVars, loadVars, clientVars>>

\* lines 106 and 110: get_stored_companies hands its result to the caller.
GetReturnsToCaller ==
    /\ pc = "get_returned"
    /\ pc' = "client"
    /\ UNCHANGED <<paragraphs, idx, all_companies, success, stored, ret, storeVars,
                   histVars, loopVars, indexVars, loadVars, clientVars>>

NextStore ==
    \/ CallInsert
    \/ InsertReturnsToCaller
    \/ CallGet
    \/ GetReturnsToCaller
    \/ InsertConnect
    \/ InsertConnectFails
    \/ InsertEnsureSchema
    \/ InsertEnsureSchemaFails
    \/ InsertRow
    \/ InsertRowFails
    \/ InsertClose
    \/ GetConnect
    \/ GetConnectFails
    \/ GetFetch
    \/ GetFetchFails
    \/ GetClose

SpecStore == InitStore /\ [][NextStore]_vars

(***************************************************************************)
(* Exercise 2: add_chunks_to_vector_db.                                    *)
(***************************************************************************)
InitIndex ==
    /\ LoopIdle
    /\ LoadIdle
    /\ ClientIdle
    /\ ExtractIdle
    /\ index_pc = "start"
    /\ chunks \in SeqsUpTo(ChunkTexts, MaxChunks)
    /\ collection \in {<<>>, <<PriorEntry>>}
    /\ collection_before = collection

\* Chroma adds one entry per document given, each under a fresh id (the
\* chunks carry no id of their own), with the embedding of its text.
WithDocuments(coll, docs) ==
    coll \o [i \in 1..Len(docs) |->
                [id |-> Len(coll) + i, document |-> docs[i], embedding |-> Embedding(docs[i])]]

\* lines 179-186: Chroma.from_documents opens the collection 'rag_exercise'
\* and adds the chunks to it.
FromDocuments ==
    /\ index_pc = "start"
    /\ collection' = WithDocuments(collection, chunks)
    /\ index_pc' = "created"
    /\ UNCHANGED <<chunks, collection_before, loopVars, extractVars, loadVars, clientVars>>

\* lines 179-186 raise (the embedding call or the store fails): nothing in
\* add_chunks_to_vector_db catches it.
FromDocumentsFails ==
    /\ index_pc = "start"
    /\ index_pc' = "raised"
    /\ UNCHANGED <<chunks, collection, collection_before, loopVars, extractVars, loadVars, clientVars>>

\* lines 188-190: vector_store.add_documents adds the chunks to the same
\* collection, and the store is returned.
AddDocuments ==
    /\ index_pc = "created"
    /\ collection' = WithDocuments(collection, chunks)
    /\ index_pc' = "returned"
    /\ UNCHANGED <<chunks, collection_before, loopVars, extractVars, loadVars, clientVars>>

\* line 188 raises.
AddDocumentsFails ==
    /\ index_pc = "created"
    /\ index_pc' = "raised"
    /\ UNCHANGED <<chunks, collection, collection_before, loopVars, extractVars, loadVars, clientVars>>

NextIndex ==
    \/ FromDocuments
    \/ FromDocumentsFails
    \/ AddDocuments
    \/ AddDocumentsFails

SpecIndex == InitIndex /\ [][NextIndex]_vars

(***************************************************************************)
(* Exercise 2: load_documents.                                             *)
(***************************************************************************)
InitLoad ==
    /\ LoopIdle
    /\ ExtractIdle
    /\ IndexIdle
    /\ ClientIdle
    /\ load_pc = "confluence"
    /\ documents = <<>>
    /\ doc_no = 0
    /\ confluence_got = <<>>
    /\ drive_got = <<>>
    /\ load_faults = {}

LoadFrame == UNCHANGED <<loopVars, extractVars, indexVars, clientVars>>

\* lines 33-48: the Confluence page is loaded and added to documents.
LoadConfluence ==
    /\ load_pc = "confluence"
    /\ \E docs \in ConfluenceLoads :
         /\ documents' = documents \o docs
         /\ confluence_got' = docs
    /\ load_pc' = "drive"
    /\ UNCHANGED <<doc_no, drive_got, load_faults>>
    /\ LoadFrame

\* lines 36-46 raise; lines 50-51 print the error.
LoadConfluenceFails ==
    /\ load_pc = "confluence"
    /\ load_faults' = load_faults \cup {"confluence"}
    /\ load_pc' = "drive"
    /\ UNCHANGED <<documents, doc_no, confluence_got, drive_got>>
    /\ LoadFrame

\* lines 55-65 and 163: GoogleDriveLoader delivers the files; documents is returned.
LoadDrive ==
    /\ load_pc = "drive"
    /\ \E docs \in DriveLoads :
         /\ documents' = documents \o docs
         /\ drive_got' = docs
    /\ load_pc' = "returned"
    /\ UNCHANGED <<doc_no, confluence_got, load_faults>>
    /\ LoadFrame

\* A variant of the handler of line 66 that lets the error leave load_documents.
LoadDriveFailsUncaught ==
    /\ load_pc = "drive"
    /\ load_faults' = load_faults \cup {"drive_loader"}
    /\ load_pc' = "raised"
    /\ UNCHANGED <<documents, doc_no, confluence_got, drive_got>>
    /\ LoadFrame

\* lines 56-63 raise; lines 66-67 print the error and the manual fallback starts.
LoadDriveFails ==
    /\ load_pc = "drive"
    /\ load_faults' = load_faults \cup {"drive_loader"}
    /\ load_pc' = "manual_imports"
    /\ UNCHANGED <<documents, doc_no, confluence_got, drive_got>>
    /\ LoadFrame

\* lines 69-73: the imports of the fallback.
ManualImports ==
    /\ load_pc = "manual_imports"
    /\ load_pc' = "manual_setup"
    /\ UNCHANGED <<documents, doc_no, confluence_got, drive_got, load_faults>>
    /\ LoadFrame

\* lines 69-73 raise ImportError (a module is not installed): the imports
\* stand inside the handler of line 66 but before the try of line 75, so the
\* error leaves load_documents.
ManualImportsFail ==
    /\ load_pc = "manual_imports"
    /\ load_faults' = load_faults \cup {"import"}
    /\ load_pc' = "raised"
    /\ UNCHANGED <<documents, doc_no, confluence_got, drive_got>>
    /\ LoadFrame

\* lines 75-91: credentials are read and the Drive service is built.
ManualSetup ==
    /\ load_pc = "manual_setup"
    /\ doc_no' = 1
    /\ load_pc' = "manual_doc"
    /\ UNCHANGED <<documents, confluence_got, drive_got, load_faults>>
    /\ LoadFrame

\* lines 76-91 raise; lines 160-161 print the error; line 163 returns.
ManualSetupFails ==
    /\ load_pc = "manual_setup"
    /\ load_faults' = load_faults \cup {"manual_setup"}
    /\ load_pc' = "returned"
    /\ UNCHANGED <<documents, doc_no, confluence_got, drive_got>>
    /\ LoadFrame

\* lines 94-154: the next file is downloaded and loaded by the branch of its
\* mimeType, and its documents are added; a file of another type adds
\* nothing; removing the temporary file (lines 127, 154) may still raise
\* after the documents were added (lines 156-158).
ManualDoc ==
    /\ load_pc = "manual_doc"
    /\ doc_no <= NumDocIds
    /\ \E mime \in MimeTypes, pages \in {1, 2}, unlink_ok \in BOOLEAN :
         LET docs == CASE MimeBranch(mime) = "pdf" -> ManualDocs(doc_no, pages)
                       [] MimeBranch(mime) = "docx" -> ManualDocs(doc_no, 1)
                       [] OTHER -> <<>>
         IN  /\ documents' = documents \o docs
             /\ drive_got' = drive_got \o docs
             /\ load_faults' = IF unlink_ok \/ docs = <<>>
                                 THEN load_faults
                                 ELSE load_faults \cup {"manual_unlink"}
    /\ doc_no' = doc_no + 1
    /\ UNCHANGED <<load_pc, confluence_got>>
    /\ LoadFrame

\* lines 97-113 or 131-140 raise; lines 156-158 print the error and go on
\* with the next id.
ManualDocFails ==
    /\ load_pc = "manual_doc"
    /\ doc_no <= NumDocIds
    /\ load_faults' = load_faults \cup {"manual_doc"}
    /\ doc_no' = doc_no + 1
    /\ UNCHANGED <<load_pc, documents, confluence_got, drive_got>>
    /\ LoadFrame

\* line 163: after the last id, documents is returned.
ManualDone ==
    /\ load_pc = "manual_doc"
    /\ doc_no > NumDocIds
    /\ load_pc' = "returned"
    /\ UNCHANGED <<documents, doc_no, confluence_got, drive_got, load_faults>>
    /\ LoadFrame

NextLoad ==
    \/ LoadConfluence
    \/ LoadConfluenceFails
    \/ LoadDrive
    \/ LoadDriveFails
    \/ ManualImports
    \/ ManualImportsFail
    \/ ManualSetup
    \/ ManualSetupFails
    \/ ManualDoc
    \/ ManualDocFails
    \/ ManualDone

SpecLoad == InitLoad /\ [][NextLoad]_vars

(***************************************************************************)
(* Claims about run_interactive_mode (checked under SpecLoop).             *)
(***************************************************************************)
\* The claims' own reading of an input line.
ClaimQuitLine(line) == Lower(Strip(line)) \in QuitSentinels

ClaimBlankLine(line) == \A i \in 1..Len(line) : line[i] \in Whitespace

CallsFor(i) == { j \in 1..Len(invoked) : invoked[j].input = i }

\* C1: a line that, trimmed and lower-cased, is 'quit' or 'q' takes the loop
\* from Awaiting-Input to Exited on that very input: it is the last line
\* read, the answerer is not called for it, and nothing is read after it.
C1_QuitExits ==
    \A i \in 1..Len(reads) :
        ClaimQuitLine(reads[i]) =>
            /\ i = Len(reads)
            /\ loop = "Exited"
            /\ ~eof
            /\ CallsFor(i) = {}

C1_Witness ==
    /\ Len(reads) >= 2
    /\ reads[Len(reads)] = <<"Q", "U", "I", "T">>
    /\ loop = "Exited"
    /\ invoked # <<>>

\* C2 (as claimed): on end-of-input the loop reaches Exited, as it does for
\* the quit sentinel, and no error escapes run_interactive_mode.
C2_EndOfInputExits == eof => loop = "Exited"

\* C3: a failure of rag_chain.invoke is caught for that question only: as long
\* as no quit sentinel and no end-of-input was read, the loop has neither
\* exited nor raised, it is awaiting input once every call has ended, and
\* every non-blank line read was passed to the answerer exactly once,
\* stripped, in the order read.
C3_FailureContained ==
    (~eof /\ \A i \in 1..Len(reads) : ~ClaimQuitLine(reads[i])) =>
        /\ loop \in {"AwaitingInput", "Answering"}
        /\ (Len(outcomes) = Len(invoked)) = (loop = "AwaitingInput")
        /\ \A i \in 1..Len(reads) :
             ~ClaimBlankLine(reads[i]) =>
                 /\ Cardinality(CallsFor(i)) = 1
                 /\ \A j \in CallsFor(i) : invoked[j].question = Strip(reads[i])
        /\ \A j, k \in 1..Len(invoked) : j < k => invoked[j].input < invoked[k].input

C3_Witness ==
    /\ Len(invoked) >= 2
    /\ Len(outcomes) >= 2
    /\ outcomes[1] = "error"
    /\ outcomes[2] = "answer"
    /\ loop = "AwaitingInput"

\* C4: an empty or whitespace-only line leaves the loop in Awaiting-Input: the
\* answerer is not called for it, the loop has not exited, and the next thing
\* the loop does is read input again.
C4_BlankReprompts ==
    \A i \in 1..Len(reads) :
        ClaimBlankLine(reads[i]) =>
            /\ CallsFor(i) = {}
            /\ (i = Len(reads) => loop = "AwaitingInput" \/ (eof /\ loop = "Raised"))

C4_Witness ==
    /\ Len(reads) >= 2
    /\ reads[1] = <<"\t", " ">>
    /\ loop = "Answering"
    /\ CallsFor(2) # {}

(***************************************************************************)
(* Claims about exercise 1 (checked under Spec).                           *)
(***************************************************************************)
\* The records that the calls of the chain so far have delivered, in paragraph
\* order, a failed call counting for none.
RECURSIVE Delivered(_)
Delivered(rs) ==
    IF rs = <<>> THEN <<>>
    ELSE Delivered(SubSeq(rs, 1, Len(rs) - 1))
         \o (IF rs[Len(rs)].ok THEN rs[Len(rs)].companies ELSE <<>>)

LoopLeft == pc \notin {"start", "extract"}

\* C5: a failure of the chain on one paragraph contributes no record for that
\* paragraph and nothing else: the paragraphs are sent to the chain once each
\* in order, failed or not, the loop is left only after the last one, and
\* everything the successful calls delivered goes, in paragraph order, to
\* one call of insert_companies_to_db.
C5_ParagraphFailureContained ==
    /\ Len(results) = idx
    /\ sent = SubSeq(paragraphs, 1, idx)
    /\ all_companies = Delivered(results)
    /\ LoopLeft => idx = Len(paragraphs)
    /\ Len(insert_calls) <= 1
    /\ insert_calls # <<>> => insert_calls[1] = Delivered(results)
    /\ (LoopLeft /\ Delivered(results) # <<>>) => Len(insert_calls) = 1

C5_Witness ==
    /\ pc = "ins_connect"
    /\ Len(results) = 3
    /\ results[1].ok /\ results[1].companies = <<CocaCola, Sony>>
    /\ ~results[2].ok
    /\ results[3].ok /\ results[3].companies = <<Stripe>>
    /\ insert_calls = << <<CocaCola, Sony, Stripe>> >>

\* The stored form of a record.
RowOf(company, row) ==
    /\ row.company_name = company.company_name
    /\ row.founded_in = Strptime(company.founding_date)
    /\ row.founded_by = company.founders

WellFormed(batch) == \A i \in 1..Len(batch) : StrptimeOk(batch[i].founding_date)

\* C6 (as claimed): a malformed founding date costs only the records of its
\* own paragraph: when the database does not fail, every record of a paragraph
\* whose dates are all well-formed is among the rows that
\* extract_and_store_companies returns.
C6_MalformedDateContained ==
    (pc = "done" /\ ~db_fault) =>
        \A i \in 1..Len(results) :
            (results[i].ok /\ WellFormed(results[i].companies)) =>
                \A j \in 1..Len(results[i].companies) :
                    \E r \in 1..Len(ret) : RowOf(results[i].companies[j], ret[r])

StoreRunning ==
    pc \in {"ins_connect", "ins_schema", "ins_row", "get_connect", "get_fetch", "get_close"}

\* C7 (as claimed): a store operation holds at most one connection and has
\* closed it when it returns, on every exit path: outside a store operation
\* no connection is open.
C7_ConnectionsClosed ==
    /\ open_conns <= 1
    /\ ~StoreRunning => open_conns = 0

\* The rows the running (or last) insert_companies_to_db has added.
Added == SubSeq(rows, Len(rows_before) + 1, Len(rows))

InsertReturned == pc \in {"ins_returned", "get_connect", "get_fetch", "get_close",
                          "get_returned", "done"}

\* C9: insert_companies_to_db inserts one row per record, in the order of the
\* batch, after the rows already there; once a record fails nothing later is
\* attempted and False is returned; True is returned only with every record
\* of the batch inserted.
C9_InsertAbortsOnFailure ==
    insert_calls # <<>> =>
        /\ Len(rows) >= Len(rows_before)
        /\ SubSeq(rows, 1, Len(rows_before)) = rows_before
        /\ Len(attempted) <= Len(Batch)
        /\ attempted = SubSeq(Batch, 1, Len(attempted))
        /\ Len(Added) <= Len(attempted)
        /\ \A i \in 1..Len(Added) : RowOf(Batch[i], Added[i])
        /\ Len(Added) < Len(attempted) =>
              /\ Len(attempted) = Len(Added) + 1
              /\ InsertReturned
              /\ ~success
        /\ (InsertReturned /\ success) => Len(Added) = Len(Batch)

C9_Witness ==
    /\ pc = "ins_returned"
    /\ ~success
    /\ Batch = <<CocaCola, Stripe, Sony>>
    /\ attempted = <<CocaCola, Stripe>>
    /\ Len(Added) = 1

\* C10: an essay of nothing but whitespace has zero paragraphs; with zero
\* paragraphs no extraction call is made, nothing is collected, neither
\* insert_companies_to_db nor get_stored_companies is called and [] is
\* returned; and storage is called only with at least one record extracted.
C10_EmptyEssayStoresNothing ==
    /\ essay_blank => paragraphs = <<>>
    /\ (pc # "start" /\ paragraphs = <<>>) =>
          /\ sent = <<>>
          /\ all_companies = <<>>
          /\ insert_calls = <<>>
          /\ get_calls = 0
          /\ pc \in {"extract", "done"}
          /\ pc = "done" => ret = <<>>
    /\ insert_calls # <<>> => all_companies # <<>>
    /\ get_calls > 0 => insert_calls # <<>>

C10_Witness ==
    /\ pc = "done"
    /\ essay_blank
    /\ sent = <<>>
    /\ ret = <<>>
    /\ rows = <<PriorRow>>

(***************************************************************************)
(* Claims about the vector indexer (checked under SpecIndex).              *)
(***************************************************************************)
EntriesOf(text) == { e \in 1..Len(collection) : collection[e].document = text }

ChunksOf(text) == { i \in 1..Len(chunks) : chunks[i] = text }

\* C8 (as claimed): one call of add_chunks_to_vector_db with n chunks on an
\* empty collection leaves exactly n entries in it, one per input chunk.
C8_OneEntryPerChunk ==
    (index_pc = "returned" /\ collection_before = <<>>) =>
        /\ Len(collection) = Len(chunks)
        /\ \A text \in ChunkTexts :
             Cardinality(EntriesOf(text)) = Cardinality(ChunksOf(text))

AscendingByDate(list) ==
    \A i \in 1..(Len(list) - 1) : ~DateBefore(list[i + 1].founded_in, list[i].founded_in)

StorePositions ==
    {"client", "ins_connect", "ins_schema", "ins_row", "ins_returned",
     "get_connect", "get_fetch", "get_close", "get_returned"}

\* C12: get_stored_companies never raises: every call ends by returning; it
\* returns all the rows of company_details, each once, in ascending order of
\* founded_in, and returns [] when the table is empty, when the relation is
\* missing and whenever connecting or querying failed.
C12_GetNeverRaises ==
    /\ pc \in StorePositions
    /\ pc = "get_returned" =>
          /\ AscendingByDate(stored)
          /\ db_fault => stored = <<>>
          /\ ~table_exists => stored = <<>>
          /\ rows = <<>> => stored = <<>>
          /\ ~db_fault =>
                /\ Len(stored) = Len(rows)
                /\ \A r \in 1..Len(rows) :
                     Cardinality({ i \in 1..Len(stored) : stored[i] = rows[r] }) = 1

C12_Witness ==
    /\ pc = "get_returned"
    /\ db_fault
    /\ stored = <<>>
    /\ Len(rows) >= 2

\* How many times a record was handed to insert_companies_to_db, over all calls.
Occurrences(company) ==
    Cardinality({ p \in UNION { { <<c, j>> : j \in 1..Len(insert_calls[c]) } :
                                c \in 1..Len(insert_calls) } :
                    insert_calls[p[1]][p[2]] = company })

AllInserted ==
    /\ Len(insert_results) = Len(insert_calls)
    /\ \A i \in 1..Len(insert_results) : insert_results[i]

\* C13: round trip. A batch of well-formed records is inserted whole (True is
\* returned) unless the database fails; and once every insert call has
\* returned True, a get_stored_companies that did not fail returns each
\* inserted record exactly as many times as it was inserted (same name, same
\* date, founders in the same order), nothing else, sorted by founding date
\* ascending, whatever the order of insertion.
C13_RoundTrip ==
    /\ (pc = "ins_returned" /\ WellFormed(Batch) /\ ~db_fault) => success
    /\ (pc = "get_returned" /\ ~db_fault /\ AllInserted) =>
          /\ AscendingByDate(stored)
          /\ Len(stored) = Len(rows)
          /\ \A company \in Companies :
                StrptimeOk(company.founding_date) =>
                    Cardinality({ i \in 1..Len(stored) : RowOf(company, stored[i]) })
                        = Occurrences(company)
          /\ \A i \in 1..Len(stored) :
                \E company \in Companies :
                    /\ StrptimeOk(company.founding_date)
                    /\ Occurrences(company) > 0
                    /\ RowOf(company, stored[i])

C13_Witness ==
    /\ pc = "get_returned"
    /\ ~db_fault
    /\ insert_calls = << <<Sony>>, <<Sony, CocaCola>> >>
    /\ insert_results = <<TRUE, TRUE>>
    /\ Len(stored) = 3
    /\ stored[1].company_name = CocaCola.company_name

InsertFailed == insert_calls # <<>> /\ InsertReturned /\ ~success

====
